---------------------------- MODULE Spec2Model ----------------------------
(***************************************************************************)
(* A model of the two pieces of logic of the noy-portfolio site:           *)
(*                                                                         *)
(*   - GalleryClient (src/src/components/gallery/gallery-client.tsx): the  *)
(*     photo fetch, the tag list (allTags) and the tag filter              *)
(*     (filteredPhotos), recomputed on every render;                       *)
(*   - filterLastNMonths (src/unnamed/part_000): the trailing N-month      *)
(*     window over the contribution calendar.                              *)
(*                                                                         *)
(* SpecGallery runs the component, SpecDate runs the date filter.          *)
(***************************************************************************)
EXTENDS Integers, Sequences, FiniteSets

VARIABLES
    \* ---- GalleryClient ----
    photos,          \* useState<PhotoMetadata[]>([]): a JavaScript value
    loading,         \* useState(true)
    searchParams,    \* useSearchParams(): the query state of the URL, or null
    selectedTag,     \* the selectedTag constant of the last render
    fetchPc,         \* where fetchPhotos stands: "idle", "fetching", "parsing", "done", "failed"
    allTags,         \* the allTags list of the last render
    filteredPhotos,  \* the filteredPhotos list of the last render
    renderError,     \* "none", or the call that threw a TypeError in the last render
    view,            \* what the last render returned: "loading", "gallery", "crashed"
    \* ---- filterLastNMonths ----
    clock,           \* the system clock and time zone read by new Date()
    pc,              \* "idle", "loop", "done"
    contributions,   \* the argument: the calendar's contribution days
    monthsArg,       \* the second argument as the caller passed it, or none
    months,          \* the parameter months: the window size
    today,           \* const today = new Date(), as local calendar fields
    cutoffMonth,
    cutoffYear,
    cutoffDate,      \* new Date(cutoffYear, cutoffMonth, today.getDate()), hours since the epoch (UTC)
    result,          \* the returned array
    \* ---- several callers at once ----
    sharedPhotos,    \* the record collection several renders read
    sharedDays,      \* the contribution array several calls are given
    callers          \* per caller: the invocation it is in, with its locals

galleryVars == <<photos, loading, searchParams, selectedTag, fetchPc, allTags, filteredPhotos, renderError, view>>
dateVars == <<clock, pc, contributions, monthsArg, months, today, cutoffMonth, cutoffYear, cutoffDate, result>>
concVars == <<sharedPhotos, sharedDays, callers>>
vars == <<galleryVars, dateVars, concVars>>

(***************************************************************************)
(* Bounds of the model.                                                    *)
(***************************************************************************)
MaxPhotos == 3      \* records in a fetched collection
MaxTagSlots == 3    \* tag entries in a fetched collection, all records together

(***************************************************************************)
(* JavaScript values.  A tag entry is a string; a record's tags field is   *)
(* an array of tag entries or is missing (undefined); the body of the      *)
(* gallery response is an array of records or some other JSON value.       *)
(***************************************************************************)
Str(s) == [type |-> "string", val |-> s]
Undefined == [type |-> "undefined", val |-> ""]
Array(s) == [type |-> "array", items |-> s]
NoField == [type |-> "undefined", items |-> <<>>]
JsonObject == [type |-> "object", items |-> <<>>]

\* The callers that render or call at the same time, and a caller that is
\* in no invocation: its locals do not exist
Callers == {"first", "second"}
IdleCaller ==
    [op |-> "none", pc |-> "idle", tag |-> "All", allTags |-> <<>>, error |-> "none",
     months |-> 0, date |-> 0, cutoffMonth |-> 0, cutoffYear |-> 0, cutoffDate |-> 0,
     out |-> <<>>]

\* The second argument of a call of filterLastNMonths: a number, or nothing
\* (undefined)
Given(n) == [given |-> TRUE, val |-> n]
NotGiven == [given |-> FALSE, val |-> 0]

\* The tag strings the content store hands out: two ordinary tags, the empty
\* string, and the literal "All" (nothing in the component keeps it out).
TagStrings == {"a", "b", "", "All"}
\* The values of the tag query parameter: a tag of the store, which the
\* fetched records may carry or not, and the empty value of "?tag=".
QueryTags == {"a", ""}

\* What useSearchParams() returns: null where the query state is not
\* available, else the query, which has a tag parameter or has none.
NullParams == [available |-> FALSE, hasTag |-> FALSE, tag |-> ""]
NoTagParam == [available |-> TRUE, hasTag |-> FALSE, tag |-> ""]
TagParam(t) == [available |-> TRUE, hasTag |-> TRUE, tag |-> t]
SearchParamsValues == {NullParams, NoTagParam} \cup {TagParam(t) : t \in QueryTags}

\* Mutant of selectedTagOf: || in place of ??, an empty value falls to "All"
selectedTagOrFalsy(sp) ==
    IF sp.available /\ sp.hasTag /\ sp.tag # "" THEN sp.tag ELSE "All"

\* lines 19-20: searchParams ? searchParams.get("tag") ?? "All" : "All";
\* get gives null for a parameter that is absent
selectedTagOf(sp) ==
    IF sp.available
    THEN (IF sp.hasTag THEN sp.tag ELSE "All")
    ELSE "All"

\* The tags fields that take j tag entries: the arrays of j tags and, taking
\* none, the missing field.
TagFields(j) ==
    {Array(t) : t \in [1..j -> {Str(s) : s \in TagStrings}]} \cup (IF j = 0 THEN {NoField} ELSE {})

\* A record: its payload (here its identity, the place it has in the store)
\* and its tags field.
WithPayload(fields) == [i \in 1..Len(fields) |-> [id |-> i, tags |-> fields[i]]]

(***************************************************************************)
(* The render of GalleryClient, lines 42-78.                               *)
(***************************************************************************)
\* Boolean(v), the predicate of filter(Boolean)
Truthy(v) == v.type = "string" /\ v.val # ""

\* Mutant of Dedupe: the Set is left out, every occurrence stays
DedupeMissing(s) == s

RECURSIVE DedupeKeepsLast(_)
\* Mutant of Dedupe: the last occurrence of every value is kept, not the first
DedupeKeepsLast(s) ==
    IF s = <<>> THEN <<>>
    ELSE LET rest == DedupeKeepsLast(Tail(s))
         IN IF \E i \in 1..Len(rest) : rest[i] = Head(s) THEN rest ELSE <<Head(s)>> \o rest

RECURSIVE Dedupe(_)
\* Array.from(new Set(s)): the first occurrence of every value, in order
Dedupe(s) ==
    IF s = <<>> THEN <<>>
    ELSE LET init == Dedupe(SubSeq(s, 1, Len(s) - 1))
             last == s[Len(s)]
         IN IF \E i \in 1..Len(init) : init[i] = last THEN init ELSE Append(init, last)

RECURSIVE FlatMapTags(_)
\* photos.flatMap((photo) => photo.tags): an array is spliced in, any other
\* value (undefined for a missing field) becomes one element
FlatMapTags(ps) ==
    IF ps = <<>> THEN <<>>
    ELSE LET t == Head(ps).tags
         IN (IF t.type = "array" THEN t.items ELSE <<Undefined>>) \o FlatMapTags(Tail(ps))

uniqueTagsOf(ps) == Dedupe(FlatMapTags(ps))

\* Mutant of FilterBoolean: filter(Boolean) is left out
FilterBooleanMissing(s) == s

FilterBoolean(s) == SelectSeq(s, Truthy)

\* Mutant of allTagsOf: the leading "All" is left out
allTagsWithoutAll(ps) == FilterBoolean(uniqueTagsOf(ps))

allTagsOf(ps) == <<Str("All")>> \o FilterBoolean(uniqueTagsOf(ps))

\* Mutant of Includes: only the first entry of the tags list is looked at
IncludesFirstOnly(tagsField, tag) ==
    Len(tagsField.items) >= 1 /\ tagsField.items[1] = Str(tag)

\* photo.tags.includes(tag); only called on an array
Includes(tagsField, tag) == \E i \in 1..Len(tagsField.items) : tagsField.items[i] = Str(tag)

\* photo.tags.includes throws a TypeError when photo.tags is undefined
IncludesThrows(ps) == \E i \in 1..Len(ps) : ps[i].tags.type # "array"

PhotoFilter(ps, tag) ==
    LET keep(photo) == Includes(photo.tags, tag) IN SelectSeq(ps, keep)

\* Mutant of filteredPhotosOf: the "All" sentinel is filtered like any tag
filteredPhotosNoSentinel(ps, tag) == PhotoFilter(ps, tag)

filteredPhotosOf(ps, tag) == IF tag = "All" THEN ps ELSE PhotoFilter(ps, tag)

\* Mutant of Render: the early return of the loading view is left out
RenderWithoutLoadingView(p, l, tag) ==
    IF p.type # "array"
    THEN [allTags |-> <<>>, filteredPhotos |-> <<>>, renderError |-> "flatMap", view |-> "crashed"]
    ELSE IF tag # "All" /\ IncludesThrows(p.items)
    THEN [allTags |-> allTagsOf(p.items), filteredPhotos |-> <<>>,
          renderError |-> "includes", view |-> "crashed"]
    ELSE [allTags |-> allTagsOf(p.items), filteredPhotos |-> filteredPhotosOf(p.items, tag),
          renderError |-> "none", view |-> "gallery"]

\* One run of the function component: the values it computes and what it
\* returns.  photos.flatMap throws when photos is no array; the filter throws
\* on the first record without a tags array.  An exception unmounts the
\* component.
Render(p, l, tag) ==
    IF p.type # "array"
    THEN [allTags |-> <<>>, filteredPhotos |-> <<>>, renderError |-> "flatMap", view |-> "crashed"]
    ELSE IF tag # "All" /\ IncludesThrows(p.items)
    THEN [allTags |-> allTagsOf(p.items), filteredPhotos |-> <<>>,
          renderError |-> "includes", view |-> "crashed"]
    ELSE [allTags |-> allTagsOf(p.items), filteredPhotos |-> filteredPhotosOf(p.items, tag),
          renderError |-> "none", view |-> IF l THEN "loading" ELSE "gallery"]

Rendered(p, l, tag) ==
    LET r == Render(p, l, tag)
    IN /\ allTags' = r.allTags
       /\ filteredPhotos' = r.filteredPhotos
       /\ renderError' = r.renderError
       /\ view' = r.view

(***************************************************************************)
(* GalleryClient: state, effect and fetch, lines 16-40.                    *)
(***************************************************************************)
\* The component after its first render; filterLastNMonths is not running.
InitGallery ==
    /\ photos = Array(<<>>)
    /\ loading = TRUE
    /\ searchParams \in SearchParamsValues
    /\ selectedTag = selectedTagOf(searchParams)
    /\ fetchPc = "idle"
    /\ allTags = Render(photos, loading, selectedTag).allTags
    /\ filteredPhotos = Render(photos, loading, selectedTag).filteredPhotos
    /\ renderError = Render(photos, loading, selectedTag).renderError
    /\ view = Render(photos, loading, selectedTag).view
    /\ clock = [year |-> 2024, month |-> 0, date |-> 10, hours |-> 0, tz |-> 0, engine |-> "strict"]
    /\ pc = "idle"
    /\ contributions = <<>>
    /\ monthsArg = NotGiven
    /\ months = 0
    /\ today = [year |-> 0, month |-> 0, date |-> 0]
    /\ cutoffMonth = 0
    /\ cutoffYear = 0
    /\ cutoffDate = 0
    /\ result = <<>>
    /\ sharedPhotos = Array(<<>>)
    /\ sharedDays = <<>>
    /\ callers = [c \in Callers |-> IdleCaller]

Mounted == view # "crashed"

\* useEffect(() => { fetchPhotos() }, []): setLoading(true), then the request
RunEffect ==
    /\ Mounted /\ fetchPc = "idle"
    /\ fetchPc' = "fetching"
    /\ loading' = TRUE
    /\ Rendered(photos, TRUE, selectedTag)
    /\ UNCHANGED <<photos, searchParams, selectedTag>>
    /\ UNCHANGED <<dateVars, concVars>>

\* the request resolves with response.ok: response.json() is awaited
ResponseOk ==
    /\ Mounted /\ fetchPc = "fetching"
    /\ fetchPc' = "parsing"
    /\ UNCHANGED <<photos, loading, searchParams, selectedTag, allTags, filteredPhotos, renderError, view>>
    /\ UNCHANGED <<dateVars, concVars>>

\* Mutant of FetchFails: the catch block stores a record in photos
FetchFailsStoresRecord ==
    /\ Mounted /\ fetchPc \in {"fetching", "parsing"}
    /\ fetchPc' = "failed"
    /\ loading' = FALSE
    /\ photos' = Array(WithPayload(<<Array(<<Str("a")>>)>>))
    /\ Rendered(photos', FALSE, selectedTag)
    /\ UNCHANGED <<searchParams, selectedTag>>
    /\ UNCHANGED <<dateVars, concVars>>

\* Mutant of FetchFails: there is no finally block, loading stays as it was
FetchFailsNoFinally ==
    /\ Mounted /\ fetchPc \in {"fetching", "parsing"}
    /\ fetchPc' = "failed"
    /\ UNCHANGED <<photos, loading, searchParams, selectedTag, allTags, filteredPhotos, renderError, view>>
    /\ UNCHANGED <<dateVars, concVars>>

\* fetch rejects, the response is not ok, or response.json() rejects:
\* catch logs, finally setLoading(false)
FetchFails ==
    /\ Mounted /\ fetchPc \in {"fetching", "parsing"}
    /\ fetchPc' = "failed"
    /\ loading' = FALSE
    /\ Rendered(photos, FALSE, selectedTag)
    /\ UNCHANGED <<photos, searchParams, selectedTag>>
    /\ UNCHANGED <<dateVars, concVars>>

\* setPhotos(data), finally setLoading(false): one render with both updates
Settle(data) ==
    /\ photos' = data
    /\ loading' = FALSE
    /\ fetchPc' = "done"
    /\ Rendered(data, FALSE, selectedTag)
    /\ UNCHANGED <<searchParams, selectedTag>>
    /\ UNCHANGED <<dateVars, concVars>>

RECURSIVE SettleWithCollection(_, _, _)
\* The body is an array of records: the tags fields chosen so far, followed by
\* n more records that hold at most k tag entries together.
SettleWithCollection(fields, n, k) ==
    IF n = 0 THEN Settle(Array(WithPayload(fields)))
    ELSE \E j \in 0..k : \E f \in TagFields(j) : SettleWithCollection(Append(fields, f), n - 1, k - j)

\* response.json() resolves with an array of records
JsonResolves ==
    /\ Mounted /\ fetchPc = "parsing"
    /\ \E n \in 0..MaxPhotos : SettleWithCollection(<<>>, n, MaxTagSlots)

\* response.json() resolves with JSON that is no array
JsonResolvesNoArray ==
    /\ Mounted /\ fetchPc = "parsing"
    /\ Settle(JsonObject)

\* Mutant of Navigate: the filter result is written back into photos
NavigateFiltersInPlace ==
    /\ Mounted
    /\ \E sp \in SearchParamsValues :
        /\ sp # searchParams
        /\ searchParams' = sp
        /\ selectedTag' = selectedTagOf(sp)
        /\ Rendered(photos, loading, selectedTagOf(sp))
        /\ photos' = IF Render(photos, loading, selectedTagOf(sp)).renderError = "none"
                     THEN Array(Render(photos, loading, selectedTagOf(sp)).filteredPhotos)
                     ELSE photos
    /\ UNCHANGED <<loading, fetchPc>>
    /\ UNCHANGED <<dateVars, concVars>>

\* Mutant of Navigate: the effect depends on the selected tag and runs again
NavigateRefetches ==
    /\ Mounted
    /\ \E sp \in SearchParamsValues :
        /\ sp # searchParams
        /\ searchParams' = sp
        /\ selectedTag' = selectedTagOf(sp)
        /\ Rendered(photos, TRUE, selectedTagOf(sp))
    /\ fetchPc' = "fetching"
    /\ loading' = TRUE
    /\ UNCHANGED photos
    /\ UNCHANGED <<dateVars, concVars>>

\* the query of the URL changes: useSearchParams re-renders the component,
\* which reads the selected tag anew
Navigate ==
    /\ Mounted
    /\ \E sp \in SearchParamsValues :
        /\ sp # searchParams
        /\ searchParams' = sp
        /\ selectedTag' = selectedTagOf(sp)
        /\ Rendered(photos, loading, selectedTagOf(sp))
    /\ UNCHANGED <<photos, loading, fetchPc>>
    /\ UNCHANGED <<dateVars, concVars>>

NextGallery ==
    \/ RunEffect
    \/ ResponseOk
    \/ FetchFails
    \/ JsonResolves
    \/ JsonResolvesNoArray
    \/ Navigate

(***************************************************************************)
(* JavaScript dates.  Time is counted in hours since 1970-01-01T00:00Z.    *)
(* A Date is [valid, time]; an Invalid Date has valid = FALSE and compares *)
(* false with everything.  Months are 0-based, as in getMonth().           *)
(***************************************************************************)
MaxMonths == 14     \* the largest window size passed by a caller
MaxContrib == 2     \* contribution days in the array passed by a caller

DefaultMonths == 11

\* Mutant of MonthsParameter: the parameter has no default, nothing counts as 0
MonthsNoDefault(arg) == arg.val

\* (contributions, months = 11): the default takes the place of an argument
\* that is not given
MonthsParameter(arg) == IF arg.given THEN arg.val ELSE DefaultMonths

IsLeapYear(y) == (y % 4 = 0 /\ y % 100 # 0) \/ y % 400 = 0

DaysInMonth(y, m) ==
    IF m = 1 THEN (IF IsLeapYear(y) THEN 29 ELSE 28)
    ELSE IF m \in {3, 5, 8, 10} THEN 30 ELSE 31

\* the day number of January 1st of year y
DayFromYear(y) ==
    365 * (y - 1970) + ((y - 1969) \div 4) - ((y - 1901) \div 100) + ((y - 1601) \div 400)

RECURSIVE DaysBeforeMonth(_, _)
DaysBeforeMonth(y, m) == IF m = 0 THEN 0 ELSE DaysBeforeMonth(y, m - 1) + DaysInMonth(y, m - 1)

\* Mutant of MakeDay: a date past the end of the month is clamped to its last day
MakeDayClamped(year, month, date) ==
    LET ym == year + (month \div 12)
        mn == month % 12
        dd == IF date > DaysInMonth(ym, mn) THEN DaysInMonth(ym, mn) ELSE date
    IN DayFromYear(ym) + DaysBeforeMonth(ym, mn) + dd - 1

\* MakeDay of the Date constructor: a month outside 0..11 carries into the
\* year, a date outside the month carries into the following days
MakeDay(year, month, date) ==
    LET ym == year + (month \div 12)
        mn == month % 12
    IN DayFromYear(ym) + DaysBeforeMonth(ym, mn) + date - 1

\* Mutant of NewDateLocal: the cutoff is the first day of the cutoff month
NewDateFirstOfMonth(year, month, date, tz) == MakeDay(year, month, 1) * 24 - tz

\* Mutant of NewDateLocal: the midnight that ends the day, not the one that starts it
NewDateNextMidnight(year, month, date, tz) == MakeDay(year, month, date) * 24 + 24 - tz

\* new Date(year, month, date): midnight of that day in the local time zone
NewDateLocal(year, month, date, tz) == MakeDay(year, month, date) * 24 - tz

\* the instant the clock shows
NowTime(c) == MakeDay(c.year, c.month, c.date) * 24 + c.hours - c.tz

\* A date string "YYYY-MM-DD" of the calendar, by its three fields (the month
\* 1-based as written).
DateString(y, m, d) == [y |-> y, m |-> m, d |-> d]

\* The hosts differ on a date-only string whose day is within 1..31 and past
\* the end of its month: a "strict" engine gives an Invalid Date, a "lenient"
\* one carries the day into the next month, as the Date constructor does.
Engines == {"strict", "lenient"}

\* new Date(string) on the host the clock belongs to: a date-only string is
\* midnight UTC; a month outside 1..12 or a day outside 1..31 is an Invalid
\* Date on every host.
NewDateParse(str) ==
    IF str.m \in 1..12 /\ str.d \in 1..DaysInMonth(str.y, str.m - 1)
    THEN [valid |-> TRUE, time |-> MakeDay(str.y, str.m - 1, str.d) * 24]
    ELSE IF clock.engine = "lenient" /\ str.m \in 1..12 /\ str.d \in 1..31
    THEN [valid |-> TRUE, time |-> MakeDay(str.y, str.m - 1, str.d) * 24]
    ELSE [valid |-> FALSE, time |-> 0]

\* Mutant of DateGeq: the comparison is strict
DateGt(date, cutoff) == date.valid /\ date.time > cutoff

\* date >= cutoffDate: both sides converted to their time values
DateGeq(date, cutoff) == date.valid /\ date.time >= cutoff

\* Mutant of ContributionFilter: the days kept are returned latest first
ContributionFilterReversed(cs, cutoff) ==
    LET keep(day) == DateGeq(NewDateParse(day.date), cutoff)
        kept == SelectSeq(cs, keep)
    IN [i \in 1..Len(kept) |-> kept[Len(kept) + 1 - i]]

\* contributions.filter((day) => new Date(day.date) >= cutoffDate)
ContributionFilter(cs, cutoff) ==
    LET keep(day) == DateGeq(NewDateParse(day.date), cutoff) IN SelectSeq(cs, keep)

RECURSIVE CutoffAfterLoop(_, _)
\* the while loop of lines 165-168 run to its end
CutoffAfterLoop(m, y) ==
    IF m < 0 THEN CutoffAfterLoop(m + 12, y - 1) ELSE [month |-> m, year |-> y]

\* cutoffDate of a call with the window n on a host whose clock shows c
cutoffDateOf(c, n) ==
    LET k == CutoffAfterLoop(c.month - n, c.year)
    IN NewDateLocal(k.year, k.month, c.date, c.tz)

\* filterLastNMonths(cs, n) called on a host whose clock shows c, as one
\* expression
filterLastNMonthsOf(cs, c, n) == ContributionFilter(cs, cutoffDateOf(c, n))

(***************************************************************************)
(* The inputs of the date filter.                                          *)
(***************************************************************************)
\* The clocks: months of 2024 at the start, in the middle and at the end of
\* the year, on days that exist in every month and on days that do not, at
\* midnight and after noon, west of, at and east of Greenwich, on either
\* kind of host.
ClockMonths == {0, 5, 11}
ClockDates == {10, 15, 30, 31}
ClockHours == {0, 13}
TimeZones == {-5, 0, 3}
Clocks ==
    {[year |-> 2024, month |-> m, date |-> d, hours |-> h, tz |-> z, engine |-> e] :
        m \in ClockMonths, d \in ClockDates, h \in ClockHours, z \in TimeZones, e \in Engines}

ValidClocks == {c \in Clocks : c.date <= DaysInMonth(c.year, c.month)}

\* The contribution days the calendar may supply, in calendar order, one
\* entry whose day is past the end of its month and one whose month does not
\* exist.
DayPool ==
    << [date |-> DateString(2023, 2, 30), count |-> 1],
       [date |-> DateString(2023, 7, 14), count |-> 4],
       [date |-> DateString(2023, 7, 15), count |-> 0],
       [date |-> DateString(2023, 7, 16), count |-> 2],
       [date |-> DateString(2023, 13, 1), count |-> 3],
       [date |-> DateString(2024, 6, 15), count |-> 5] >>

RECURSIVE Subsequences(_, _)
\* the subsequences of s with at most k elements
Subsequences(s, k) ==
    IF s = <<>> \/ k = 0 THEN {<<>>}
    ELSE Subsequences(Tail(s), k) \cup {<<Head(s)>> \o r : r \in Subsequences(Tail(s), k - 1)}

ContributionLists == Subsequences(DayPool, MaxContrib)

(***************************************************************************)
(* filterLastNMonths, part_000 lines 157-177.                              *)
(***************************************************************************)
\* The clock shows some instant, filterLastNMonths is not running; the gallery
\* component stands at its first render.
InitDate ==
    /\ clock \in ValidClocks
    /\ pc = "idle"
    /\ contributions = <<>>
    /\ monthsArg = NotGiven
    /\ months = 0
    /\ today = [year |-> 0, month |-> 0, date |-> 0]
    /\ cutoffMonth = 0
    /\ cutoffYear = 0
    /\ cutoffDate = 0
    /\ result = <<>>
    /\ sharedPhotos = Array(<<>>)
    /\ sharedDays = <<>>
    /\ callers = [c \in Callers |-> IdleCaller]
    /\ photos = Array(<<>>)
    /\ loading = TRUE
    /\ searchParams = NoTagParam
    /\ selectedTag = "All"
    /\ fetchPc = "idle"
    /\ allTags = <<Str("All")>>
    /\ filteredPhotos = <<>>
    /\ renderError = "none"
    /\ view = "loading"

\* lines 157-162: the arguments are bound, the clock is read
Enter(cs, arg) ==
    /\ contributions' = cs
    /\ monthsArg' = arg
    /\ months' = MonthsParameter(arg)
    /\ today' = [year |-> clock.year, month |-> clock.month, date |-> clock.date]
    /\ cutoffMonth' = clock.month - MonthsParameter(arg)
    /\ cutoffYear' = clock.year
    /\ pc' = "loop"
    /\ UNCHANGED <<clock, cutoffDate, result>>
    /\ UNCHANGED <<galleryVars, concVars>>

\* a caller passes the window size
Call ==
    /\ pc = "idle"
    /\ \E cs \in ContributionLists, n \in 0..MaxMonths : Enter(cs, Given(n))

\* GitHubCalendar calls its transformData hook with the contributions only
\* (line 238)
CallAsTransformData ==
    /\ pc = "idle"
    /\ \E cs \in ContributionLists : Enter(cs, NotGiven)

\* Mutant of Borrow: the year is not decremented
BorrowKeepsYear ==
    /\ pc = "loop"
    /\ cutoffMonth < 0
    /\ cutoffMonth' = cutoffMonth + 12
    /\ UNCHANGED <<clock, pc, contributions, monthsArg, months, today, cutoffYear, cutoffDate, result>>
    /\ UNCHANGED <<galleryVars, concVars>>

\* lines 165-168: one turn of the while loop
Borrow ==
    /\ pc = "loop"
    /\ cutoffMonth < 0
    /\ cutoffMonth' = cutoffMonth + 12
    /\ cutoffYear' = cutoffYear - 1
    /\ UNCHANGED <<clock, pc, contributions, monthsArg, months, today, cutoffDate, result>>
    /\ UNCHANGED <<galleryVars, concVars>>

\* lines 170-176: the loop is left, the cutoff date is built, the array is filtered
FilterFromCutoff ==
    /\ pc = "loop"
    /\ ~(cutoffMonth < 0)
    /\ cutoffDate' = NewDateLocal(cutoffYear, cutoffMonth, today.date, clock.tz)
    /\ result' = ContributionFilter(contributions, cutoffDate')
    /\ pc' = "done"
    /\ UNCHANGED <<clock, contributions, monthsArg, months, today, cutoffMonth, cutoffYear>>
    /\ UNCHANGED <<galleryVars, concVars>>

\* the caller takes the result; the locals are gone
Return ==
    /\ pc = "done"
    /\ pc' = "idle"
    /\ contributions' = <<>>
    /\ monthsArg' = NotGiven
    /\ months' = 0
    /\ today' = [year |-> 0, month |-> 0, date |-> 0]
    /\ cutoffMonth' = 0
    /\ cutoffYear' = 0
    /\ cutoffDate' = 0
    /\ result' = <<>>
    /\ UNCHANGED clock
    /\ UNCHANGED <<galleryVars, concVars>>

NextDate ==
    \/ Call
    \/ CallAsTransformData
    \/ Borrow
    \/ FilterFromCutoff
    \/ Return

(***************************************************************************)
(* Several callers at once: two renders of the tag list and the tag filter *)
(* over one record collection (gallery-client.tsx lines 43-50), two calls  *)
(* of filterLastNMonths on one contribution array (part_000 lines          *)
(* 157-177), their steps interleaved in any order.  Every caller has its   *)
(* own locals; the collection and the array are the same objects for all.  *)
(***************************************************************************)
\* the collections the renders share: the one of the spec's example, one
\* with a record without tags, and the empty one
SharedCollections ==
    { Array(WithPayload(<< Array(<<Str("a"), Str("b")>>), Array(<<Str("b")>>), Array(<<>>) >>)),
      Array(WithPayload(<< Array(<<Str("a"), Str("a")>>), NoField >>)),
      Array(<<>>) }

\* the hosts of the concurrent calls: the 15th of a month, after noon, west
\* of Greenwich
SharedClocks ==
    {c \in ValidClocks : c.date = 15 /\ c.hours = 13 /\ c.tz = -5 /\ c.engine = "lenient"}

\* the tags the renders select and the windows the calls pass
RenderTags == {"All", "a", ""}
WindowArgs == {NotGiven, Given(0), Given(MaxMonths)}

InitConcurrent ==
    /\ sharedPhotos \in SharedCollections
    /\ sharedDays \in ContributionLists
    /\ callers = [c \in Callers |-> IdleCaller]
    /\ clock \in SharedClocks
    /\ pc = "idle"
    /\ contributions = <<>>
    /\ monthsArg = NotGiven
    /\ months = 0
    /\ today = [year |-> 0, month |-> 0, date |-> 0]
    /\ cutoffMonth = 0
    /\ cutoffYear = 0
    /\ cutoffDate = 0
    /\ result = <<>>
    /\ photos = Array(<<>>)
    /\ loading = TRUE
    /\ searchParams = NoTagParam
    /\ selectedTag = "All"
    /\ fetchPc = "idle"
    /\ allTags = <<Str("All")>>
    /\ filteredPhotos = <<>>
    /\ renderError = "none"
    /\ view = "loading"

\* a render starts under some selected tag
BeginRender ==
    \E c \in Callers : \E tag \in RenderTags :
        /\ callers[c].pc = "idle"
        /\ callers' = [callers EXCEPT ![c] = [IdleCaller EXCEPT !.op = "tags", !.pc = "universe", !.tag = tag]]
        /\ UNCHANGED <<sharedPhotos, sharedDays, galleryVars, dateVars>>

\* lines 43-44: the caller's render derives the tag list
DeriveUniverse ==
    \E c \in Callers :
        /\ callers[c].pc = "universe"
        /\ callers' = [callers EXCEPT ![c].allTags = allTagsOf(sharedPhotos.items), ![c].pc = "filter"]
        /\ UNCHANGED <<sharedPhotos, sharedDays, galleryVars, dateVars>>

\* lines 47-50: the caller's render filters, or throws at includes
FilterPhotos ==
    \E c \in Callers :
        /\ callers[c].pc = "filter"
        /\ callers' =
            IF callers[c].tag # "All" /\ IncludesThrows(sharedPhotos.items)
            THEN [callers EXCEPT ![c].error = "includes", ![c].pc = "done"]
            ELSE [callers EXCEPT ![c].out = filteredPhotosOf(sharedPhotos.items, callers[c].tag),
                                 ![c].pc = "done"]
        /\ UNCHANGED <<sharedPhotos, sharedDays, galleryVars, dateVars>>

\* lines 157-162: a call of filterLastNMonths starts and reads the clock
BeginCall ==
    \E c \in Callers : \E arg \in WindowArgs :
        /\ callers[c].pc = "idle"
        /\ callers' = [callers EXCEPT ![c] =
                [IdleCaller EXCEPT !.op = "dates", !.pc = "loop",
                                   !.months = MonthsParameter(arg),
                                   !.date = clock.date,
                                   !.cutoffMonth = clock.month - MonthsParameter(arg),
                                   !.cutoffYear = clock.year]]
        /\ UNCHANGED <<sharedPhotos, sharedDays, galleryVars, dateVars>>

\* Mutant of BorrowOfCaller: cutoffMonth and cutoffYear are declared outside
\* the function, one pair for all calls
BorrowSharedLocals ==
    \E c \in Callers :
        /\ callers[c].pc = "loop"
        /\ callers[c].cutoffMonth < 0
        /\ callers' = [d \in Callers |->
                IF callers[d].pc = "loop"
                THEN [callers[d] EXCEPT !.cutoffMonth = callers[c].cutoffMonth + 12,
                                        !.cutoffYear = callers[c].cutoffYear - 1]
                ELSE callers[d]]
        /\ UNCHANGED <<sharedPhotos, sharedDays, galleryVars, dateVars>>

\* lines 165-168: one turn of the caller's while loop
BorrowOfCaller ==
    \E c \in Callers :
        /\ callers[c].pc = "loop"
        /\ callers[c].cutoffMonth < 0
        /\ callers' = [callers EXCEPT ![c].cutoffMonth = @ + 12, ![c].cutoffYear = @ - 1]
        /\ UNCHANGED <<sharedPhotos, sharedDays, galleryVars, dateVars>>

\* Mutant of FilterOfCaller: the array is filtered in place
FilterInPlace ==
    \E c \in Callers :
        /\ callers[c].pc = "loop"
        /\ ~(callers[c].cutoffMonth < 0)
        /\ LET cut == NewDateLocal(callers[c].cutoffYear, callers[c].cutoffMonth, callers[c].date, clock.tz)
           IN /\ callers' = [callers EXCEPT ![c].cutoffDate = cut,
                                             ![c].out = ContributionFilter(sharedDays, cut),
                                             ![c].pc = "done"]
              /\ sharedDays' = ContributionFilter(sharedDays, cut)
        /\ UNCHANGED <<sharedPhotos, galleryVars, dateVars>>

\* lines 170-176: the caller's loop is left, the cutoff built, the array filtered
FilterOfCaller ==
    \E c \in Callers :
        /\ callers[c].pc = "loop"
        /\ ~(callers[c].cutoffMonth < 0)
        /\ LET cut == NewDateLocal(callers[c].cutoffYear, callers[c].cutoffMonth, callers[c].date, clock.tz)
           IN callers' = [callers EXCEPT ![c].cutoffDate = cut,
                                         ![c].out = ContributionFilter(sharedDays, cut),
                                         ![c].pc = "done"]
        /\ UNCHANGED <<sharedPhotos, sharedDays, galleryVars, dateVars>>

\* the caller takes what was returned or thrown; its locals are gone
Finish ==
    \E c \in Callers :
        /\ callers[c].pc = "done"
        /\ callers' = [callers EXCEPT ![c] = IdleCaller]
        /\ UNCHANGED <<sharedPhotos, sharedDays, galleryVars, dateVars>>

NextConcurrent ==
    \/ BeginRender
    \/ DeriveUniverse
    \/ FilterPhotos
    \/ BeginCall
    \/ BorrowOfCaller
    \/ FilterOfCaller
    \/ Finish

SpecGallery == InitGallery /\ [][NextGallery]_vars

\* React runs the effect of a mounted component after its first render
SpecGalleryFair == SpecGallery /\ WF_vars(RunEffect)

\* and no promise the fetch awaits stays pending for ever: FetchFails is
\* enabled as long as one is pending, so its weak fairness leaves exactly the
\* behaviours in which the fetch settles, by a result or by a failure
SpecGallerySettles == SpecGalleryFair /\ WF_vars(FetchFails)

SpecDate == InitDate /\ [][NextDate]_vars

SpecConcurrent == InitConcurrent /\ [][NextConcurrent]_vars

SpecDateFair == SpecDate /\ WF_vars(Borrow) /\ WF_vars(FilterFromCutoff)

(***************************************************************************)
(* Properties of the tag filter and of the tag list (SpecGallery).         *)
(***************************************************************************)
\* photos holds a record collection
IsCollection == photos.type = "array"

\* record r has a tags list, and tag is in it by exact string equality
HasTag(r, tag) ==
    /\ r.tags.type = "array"
    /\ \E i \in 1..Len(r.tags.items) :
        r.tags.items[i].type = "string" /\ r.tags.items[i].val = tag

Tagless(r) == r.tags.type # "array"

\* out holds exactly the records of rs that have the tag, once each, in the
\* order of rs (a record's id is its place in rs)
ExactlyTheTagged(out, rs, tag) ==
    /\ \A i \in 1..Len(out) : \E j \in 1..Len(rs) : out[i] = rs[j] /\ HasTag(rs[j], tag)
    /\ \A j \in 1..Len(rs) : HasTag(rs[j], tag) => \E i \in 1..Len(out) : out[i] = rs[j]
    /\ \A i, k \in 1..Len(out) : i < k => out[i].id < out[k].id

\* C1: for every record collection R and every selected tag T other than
\* "All", the tag filter yields exactly the records of R whose tags list
\* contains T, in their original order.
C1_FilterByTagExact ==
    (IsCollection /\ selectedTag # "All") =>
        /\ renderError = "none"
        /\ ExactlyTheTagged(filteredPhotos, photos.items, selectedTag)

\* The statement of C1 over the collections whose records all have a tags
\* list: there the filter is exact.
FilterExactOnTaggedRecords ==
    (IsCollection /\ selectedTag # "All" /\ \A j \in 1..Len(photos.items) : ~Tagless(photos.items[j])) =>
        /\ renderError = "none"
        /\ ExactlyTheTagged(filteredPhotos, photos.items, selectedTag)

\* C2: for every record collection R, the filter under the tag "All" is R
\* itself: the same records in the same order.
C2_AllIsIdentity ==
    (IsCollection /\ selectedTag = "All") =>
        /\ renderError = "none"
        /\ filteredPhotos = photos.items

\* C2's case: a fetched collection of several records, one of them without
\* tags, shown whole under "All".
C2_Witness ==
    /\ fetchPc = "done" /\ IsCollection /\ selectedTag = "All"
    /\ Len(photos.items) >= 2
    /\ \E j \in 1..Len(photos.items) : Tagless(photos.items[j])
    /\ \E j \in 1..Len(photos.items) : HasTag(photos.items[j], "a")
    /\ Len(filteredPhotos) = Len(photos.items)

\* C8: a record without a tags field counts as a record with no tags: under
\* every selected tag other than "All" the filter raises no error, leaves the
\* record out and filters the other records as usual.
C8_MissingTagsAsEmpty ==
    (/\ IsCollection /\ selectedTag # "All"
     /\ \E j \in 1..Len(photos.items) : Tagless(photos.items[j])) =>
        /\ renderError # "includes"
        /\ \A i \in 1..Len(filteredPhotos) : ~Tagless(filteredPhotos[i])
        /\ ExactlyTheTagged(filteredPhotos, photos.items, selectedTag)

\* C9: the tag list is derived without error from records whose tags are
\* empty or missing and from empty tag values, and holds no undefined, null
\* or empty-string entry.
C9_TagUniverseTolerant ==
    IsCollection =>
        /\ renderError # "flatMap"
        /\ Len(allTags) >= 1
        /\ \A i \in 1..Len(allTags) : allTags[i].type = "string" /\ allTags[i].val # ""

\* C9's case: a fetched collection with a record without tags, a record with
\* no tag at all and an empty tag value beside a real tag.
C9_Witness ==
    /\ fetchPc = "done" /\ IsCollection
    /\ \E j \in 1..Len(photos.items) : Tagless(photos.items[j])
    /\ \E j \in 1..Len(photos.items) : photos.items[j].tags = Array(<<>>)
    /\ \E j \in 1..Len(photos.items) : HasTag(photos.items[j], "") /\ HasTag(photos.items[j], "a")
    /\ allTags = <<Str("All"), Str("a")>>

NoDuplicates(s) == \A i, k \in 1..Len(s) : i # k => s[i] # s[k]

CarriesLiteralAll(rs) == \E j \in 1..Len(rs) : HasTag(rs[j], "All")

\* C10 as stated: for every record collection, the tag list starts with "All"
\* and holds no entry twice.
C10_Original ==
    IsCollection =>
        /\ Len(allTags) >= 1 /\ allTags[1] = Str("All")
        /\ NoDuplicates(allTags)

\* C10, amended: for every record collection the tag list starts with "All";
\* it holds no entry twice provided no record carries the literal tag "All".
C10_AllFirstNoDuplicates ==
    IsCollection =>
        /\ Len(allTags) >= 1 /\ allTags[1] = Str("All")
        /\ ~CarriesLiteralAll(photos.items) => NoDuplicates(allTags)

\* C10's case: two records share a tag, a third tag follows; each is listed once.
C10_Witness ==
    /\ fetchPc = "done" /\ IsCollection
    /\ ~CarriesLiteralAll(photos.items)
    /\ Cardinality({j \in 1..Len(photos.items) : HasTag(photos.items[j], "a")}) >= 2
    /\ allTags = <<Str("All"), Str("a"), Str("b")>>

\* the non-empty tag values found in the tag lists of rs
TagValues(rs) == {t \in TagStrings \ {""} : \E j \in 1..Len(rs) : HasTag(rs[j], t)}

\* entry i of the tag list of record j is the tag t
OccursAt(rs, t, j, i) ==
    /\ rs[j].tags.type = "array"
    /\ i \in 1..Len(rs[j].tags.items)
    /\ rs[j].tags.items[i] = Str(t)

\* scanning the records left to right and each tag list left to right, the
\* tag s is met before the tag t is
MetBefore(rs, s, t) ==
    \E j \in 1..Len(rs) : \E i \in 1..MaxTagSlots + 1 :
        /\ OccursAt(rs, s, j, i)
        /\ \A j2 \in 1..Len(rs) : \A i2 \in 1..MaxTagSlots + 1 :
            OccursAt(rs, t, j2, i2) => (j < j2 \/ (j = j2 /\ i < i2))

ExampleRecords ==
    WithPayload(<< Array(<<Str("a"), Str("b")>>), Array(<<Str("b")>>), Array(<<>>) >>)

\* C11: the tag list is "All" followed by every distinct non-empty tag value
\* found in a record's tag list, each exactly once, in the order of first
\* appearance over the records left to right and each tag list left to
\* right; for [{tags:[a,b]}, {tags:[b]}, {tags:[]}] it is [All, a, b].
C11_TagUniverseFirstAppearance ==
    IsCollection =>
        LET rest == Tail(allTags)
        IN /\ allTags[1] = Str("All")
           /\ {rest[k] : k \in 1..Len(rest)} = {Str(t) : t \in TagValues(photos.items)}
           /\ Len(rest) = Cardinality(TagValues(photos.items))
           /\ \A x, y \in 1..Len(rest) :
                x < y => MetBefore(photos.items, rest[x].val, rest[y].val)
           /\ photos.items = ExampleRecords => allTags = <<Str("All"), Str("a"), Str("b")>>

\* C11's case: a tag that a later record repeats after another tag was met
\* in between: the list follows the first meetings.
C11_Witness ==
    /\ fetchPc = "done" /\ IsCollection
    /\ Len(photos.items) = 2
    /\ photos.items[1].tags = Array(<<Str("b")>>)
    /\ photos.items[2].tags = Array(<<Str("a"), Str("b")>>)
    /\ allTags = <<Str("All"), Str("b"), Str("a")>>

\* C12: from an empty record collection the tag list is exactly ["All"];
\* this is the tag list of the component before any photos have been fetched
\* and after a failed fetch, where it is shown with the gallery.
C12_EmptyCollectionGivesAll ==
    /\ (IsCollection /\ photos.items = <<>>) => allTags = <<Str("All")>>
    /\ fetchPc \in {"idle", "fetching", "parsing"} => allTags = <<Str("All")>>
    /\ fetchPc = "failed" => (allTags = <<Str("All")>> /\ view = "gallery")

\* C12's case: the fetch has failed and the gallery is shown under a tag
\* from the URL.
C12_Witness ==
    /\ fetchPc = "failed" /\ selectedTag = "a"
    /\ photos = Array(<<>>) /\ ~loading
    /\ view = "gallery" /\ allTags = <<Str("All")>>

AllTagged(rs) == \A j \in 1..Len(rs) : ~Tagless(rs[j])

\* C13: the tag filter has no error outcome for an unknown tag: under every
\* selected tag other than "All" that no record carries, tags from the URL
\* outside the tag list included, the result is the empty list.
C13_UnknownTagGivesEmpty ==
    (/\ IsCollection /\ selectedTag # "All"
     /\ \A j \in 1..Len(photos.items) : ~HasTag(photos.items[j], selectedTag)) =>
        /\ renderError = "none"
        /\ filteredPhotos = <<>>

\* The statement of C13 over the collections whose records all have a tags
\* list: there an unknown tag gives the empty list.
UnknownTagEmptyOnTaggedRecords ==
    (/\ IsCollection /\ selectedTag # "All" /\ AllTagged(photos.items)
     /\ \A j \in 1..Len(photos.items) : ~HasTag(photos.items[j], selectedTag)) =>
        /\ renderError = "none"
        /\ filteredPhotos = <<>>

\* the tags list of r holds the tag more than once
HoldsTwice(r, tag) ==
    /\ r.tags.type = "array"
    /\ Cardinality({i \in 1..Len(r.tags.items) : r.tags.items[i] = Str(tag)}) >= 2

Occurrences(s, v) == Cardinality({i \in 1..Len(s) : s[i] = v})

\* C14: a record whose tags list holds a tag T more than once is exactly
\* once in the filter result under T, and T is exactly once in the tag list.
C14_DuplicateTagsCountOnce ==
    IsCollection =>
        \A j \in 1..Len(photos.items) : \A T \in TagStrings :
            HoldsTwice(photos.items[j], T) =>
                /\ selectedTag = T =>
                    (renderError = "none" /\ Occurrences(filteredPhotos, photos.items[j]) = 1)
                /\ Occurrences(allTags, Str(T)) = 1

\* The statement of C14 over the collections whose records all have a tags
\* list and over the tags that are neither empty nor the literal "All".
DuplicatesCountOnceOnTaggedRecords ==
    (IsCollection /\ AllTagged(photos.items)) =>
        \A j \in 1..Len(photos.items) : \A T \in TagStrings \ {"", "All"} :
            HoldsTwice(photos.items[j], T) =>
                /\ selectedTag = T =>
                    (renderError = "none" /\ Occurrences(filteredPhotos, photos.items[j]) = 1)
                /\ Occurrences(allTags, Str(T)) = 1

\* the step in which the fetched body is stored by setPhotos(data)
StoresFetched == fetchPc = "parsing" /\ fetchPc' = "done"

\* C15: deriving the tag list and filtering leave the record collection as
\* it was: whatever tag is selected, a render changes neither its length nor
\* its order nor any record, and the filter result holds records of the
\* collection unaltered.
C15_FiltersLeaveInputUnchanged ==
    /\ [][~StoresFetched => photos' = photos]_vars
    /\ [](IsCollection =>
            \A i \in 1..Len(filteredPhotos) :
                \E j \in 1..Len(photos.items) : filteredPhotos[i] = photos.items[j])

\* C15's case: a filter under a tag has kept one record of three and the
\* collection still holds all three.
C15_Witness ==
    /\ fetchPc = "done" /\ IsCollection /\ selectedTag = "a"
    /\ Len(photos.items) = 3 /\ Len(filteredPhotos) = 1
    /\ \A j \in 1..3 : photos.items[j].id = j
    /\ allTags = <<Str("All"), Str("a"), Str("b")>>

\* C18: in every reachable state the photos value handed to the tag list
\* derivation and to the tag filter is an array: no outcome of the fetch, a
\* network error, a non-OK status or an OK response whose JSON body is no
\* array, puts another value into photos.
C18_PhotosAlwaysArray == photos.type = "array"

\* What does hold: a fetch that fails leaves the empty array in photos.
FailedFetchKeepsArray == fetchPc \in {"idle", "fetching", "parsing", "failed"} => photos = Array(<<>>)

\* what the component shows and offers: the view, the tag list and the photos
Shown == <<view, allTags, filteredPhotos>>

\* what it shows after a fetch that returned the empty collection
ShownForEmptyCollection ==
    LET r == Render(Array(<<>>), FALSE, selectedTag)
    IN <<r.view, r.allTags, r.filteredPhotos>>

\* C19: when the fetch fails, by a thrown error or a non-OK response, the
\* component shows an error state: what it renders after the failure differs
\* from what it renders after a fetch that returned an empty collection.
C19_FailureIsVisible == fetchPc = "failed" => Shown # ShownForEmptyCollection

\* the fetch is issued in a step only if it was never issued before; a change
\* of the selected tag touches neither the fetch nor photos; once the fetch
\* has settled neither changes again
C20_Step ==
    /\ (fetchPc' = "fetching" /\ fetchPc # "fetching") => fetchPc = "idle"
    /\ fetchPc # "idle" => fetchPc' # "idle"
    /\ selectedTag' # selectedTag => (fetchPc' = fetchPc /\ photos' = photos)
    /\ fetchPc \in {"done", "failed"} => (fetchPc' = fetchPc /\ photos' = photos)

\* C20: the record collection is fetched once per page view: the fetch is
\* issued after mount, exactly once, and no later change of the selected tag
\* or re-render issues another fetch or changes the photos held.
C20_FetchOncePerView ==
    /\ <>(fetchPc # "idle")
    /\ [][C20_Step]_vars

\* C20's case: the fetch has settled with two records and the gallery shows
\* one of them under a tag of the URL.
C20_Witness ==
    /\ fetchPc = "done" /\ IsCollection /\ selectedTag = "a"
    /\ Len(photos.items) = 2 /\ Len(filteredPhotos) = 1
    /\ view = "gallery" /\ ~loading

(***************************************************************************)
(* Properties of the date-window filter (SpecDate, SpecDateFair).          *)
(***************************************************************************)
\* contribution i of the argument is in the returned array
Included(i) == \E k \in 1..Len(result) : result[k] = contributions[i]

\* the date-time of a contribution record is at or after the instant t
AtOrAfter(day, t) == NewDateParse(day.date).valid /\ NewDateParse(day.date).time >= t

Dated(day, y, m, d) == day.date = DateString(y, m, d)

TodayIs(y, m, d) == today = [year |-> y, month |-> m, date |-> d]

\* C3: a contribution record is included if and only if its date-time is at
\* or after the cutoff date, which is built from cutoffYear, cutoffMonth and
\* the day of the month of now; the bound is inclusive and instants are
\* compared, not calendar dates.
C3_IncludedIffAtOrAfterCutoff ==
    pc = "done" =>
        /\ today.date = clock.date
        /\ cutoffDate = NewDateLocal(cutoffYear, cutoffMonth, today.date, clock.tz)
        /\ \A i \in 1..Len(contributions) : Included(i) <=> AtOrAfter(contributions[i], cutoffDate)

\* C3's case: a record dated exactly at the cutoff instant is included, the
\* record of the day before is not.
C3_Witness ==
    /\ pc = "done" /\ Len(contributions) = 2
    /\ NewDateParse(contributions[1].date).valid
    /\ NewDateParse(contributions[1].date).time < cutoffDate
    /\ NewDateParse(contributions[2].date).time = cutoffDate
    /\ ~Included(1) /\ Included(2)

\* the months counted from year 0
MonthIndex(y, m) == y * 12 + m

C4_State ==
    /\ pc = "loop" =>
        /\ MonthIndex(cutoffYear, cutoffMonth) = MonthIndex(today.year, today.month) - months
        /\ cutoffMonth <= 11
    /\ pc = "done" =>
        /\ cutoffMonth \in 0..11
        /\ MonthIndex(cutoffYear, cutoffMonth) = MonthIndex(today.year, today.month) - months
    /\ (pc = "done" /\ TodayIs(2024, 0, 10) /\ months = 14) =>
        /\ cutoffYear = 2022 /\ cutoffMonth = 10
        /\ cutoffDate = 19306 * 24 - clock.tz

C4_Step ==
    /\ (pc = "idle" /\ pc' = "loop") =>
        /\ months' >= 0
        /\ cutoffMonth' = clock.month - months'
        /\ cutoffYear' = clock.year
    /\ (pc = "loop" /\ pc' = "loop") =>
        /\ cutoffMonth < 0
        /\ cutoffMonth' = cutoffMonth + 12
        /\ cutoffYear' = cutoffYear - 1
    /\ (pc = "loop" /\ pc' = "done") =>
        /\ ~(cutoffMonth < 0)
        /\ cutoffMonth' = cutoffMonth /\ cutoffYear' = cutoffYear

\* C4: for every non-negative window size the normalization starts from
\* cutoffMonth = now.month - windowMonths and cutoffYear = now.year, adds 12
\* to the month and takes 1 from the year while the month is negative,
\* terminates, and ends with the month in 0..11 and the count of months
\* preserved, also over several years; 14 months before 2024-01-10 the cutoff
\* is 2022-11-10 (day 19306 of the epoch, at local midnight).
C4_CutoffNormalization ==
    /\ []C4_State
    /\ [][C4_Step]_vars
    /\ (pc = "loop") ~> (pc = "done")

\* C4's case: the window of 14 months from 2024-01-10, normalized over two years.
C4_Witness ==
    /\ pc = "done" /\ TodayIs(2024, 0, 10) /\ months = 14
    /\ cutoffYear = today.year - 2

\* C5: with a window of 11 months on 2024-06-15 the cutoff is 2023-07-15 (day
\* 19553 of the epoch, at local midnight); a contribution dated 2023-07-14 is
\* excluded, one dated 2023-07-15 is included, one dated 2023-07-16 is included.
C5_ExampleWindow ==
    (pc = "done" /\ TodayIs(2024, 5, 15) /\ months = 11) =>
        /\ cutoffDate = 19553 * 24 - clock.tz
        /\ \A i \in 1..Len(contributions) :
            /\ Dated(contributions[i], 2023, 7, 14) => ~Included(i)
            /\ Dated(contributions[i], 2023, 7, 15) => Included(i)
            /\ Dated(contributions[i], 2023, 7, 16) => Included(i)

\* C6 as stated: with a window of 0 months the cutoff is the instant now, and
\* exactly the contributions at or after now are included.
C6_Original ==
    (pc = "done" /\ months = 0) =>
        /\ cutoffDate = NowTime(clock)
        /\ \A i \in 1..Len(contributions) : Included(i) <=> AtOrAfter(contributions[i], NowTime(clock))

\* C6, amended: with a window of 0 months the cutoff is local midnight at the
\* start of the day of now (equal to now only when now is that midnight), and
\* exactly the contributions at or after that midnight are included.
C6_ZeroWindowCutsAtMidnight ==
    (pc = "done" /\ months = 0) =>
        /\ cutoffDate = NowTime(clock) - clock.hours
        /\ (cutoffDate = NowTime(clock)) <=> (clock.hours = 0)
        /\ \A i \in 1..Len(contributions) :
            Included(i) <=> AtOrAfter(contributions[i], NowTime(clock) - clock.hours)

\* C6's case: after noon, with a window of 0 months, a contribution of today,
\* dated before now, is included.
C6_Witness ==
    /\ pc = "done" /\ months = 0 /\ clock.hours = 13
    /\ \E i \in 1..Len(contributions) :
        /\ Included(i)
        /\ NewDateParse(contributions[i].date).time < NowTime(clock)

\* C7: when the day of the month of now is past the end of the cutoff month,
\* the day is not clamped: the cutoff is midnight of the day
\* (now.dayOfMonth - daysIn(cutoffMonth)) of the following month.
C7_DayRollsIntoNextMonth ==
    (pc = "done" /\ today.date > DaysInMonth(cutoffYear, cutoffMonth)) =>
        LET over == today.date - DaysInMonth(cutoffYear, cutoffMonth)
            nextMonth == (cutoffMonth + 1) % 12
            nextYear == cutoffYear + ((cutoffMonth + 1) \div 12)
        IN /\ over \in 1..DaysInMonth(nextYear, nextMonth)
           /\ cutoffDate = NewDateLocal(nextYear, nextMonth, over, clock.tz)
           /\ cutoffDate > NewDateLocal(cutoffYear, cutoffMonth, DaysInMonth(cutoffYear, cutoffMonth), clock.tz)

\* C7's case: on 2024-01-30 with a window of 11 months the cutoff month is
\* February 2023 and the cutoff is 2023-03-02 (day 19418 of the epoch).
C7_Witness ==
    /\ pc = "done" /\ TodayIs(2024, 0, 30) /\ months = 11
    /\ cutoffYear = 2023 /\ cutoffMonth = 1
    /\ cutoffDate = 19418 * 24 - clock.tz

\* the clocks that show the same date and time of day as c, in any time zone
SameReading(c) ==
    {c2 \in ValidClocks :
        /\ c2.year = c.year /\ c2.month = c.month /\ c2.date = c.date
        /\ c2.hours = c.hours /\ c2.engine = c.engine}

\* C16: filterLastNMonths is a function of the collection, the current time
\* and the window size alone: called with the same three it returns the same
\* subset, whatever else the host's state is.
C16_PureInCollectionTimeWindow ==
    pc = "done" =>
        \A c2 \in SameReading(clock) :
            filterLastNMonthsOf(contributions, c2, months) = result

\* What does hold: the result is a function of the collection, the window
\* size and the host's clock with its time zone.
ResultIsFunctionOfHostClock ==
    pc = "done" => result = filterLastNMonthsOf(contributions, clock, months)

\* the string names no day of the calendar: its month or its day is out of range
NoCalendarDate(str) == ~(str.m \in 1..12 /\ str.d \in 1..DaysInMonth(str.y, str.m - 1))

\* C17: a contribution whose date is unparseable or out of range is left out
\* of the result and raises no error; the other contributions are filtered
\* as usual.
C17_BadDateExcluded ==
    pc = "done" =>
        \A i \in 1..Len(contributions) :
            IF NoCalendarDate(contributions[i].date)
            THEN ~Included(i)
            ELSE Included(i) <=> AtOrAfter(contributions[i], cutoffDate)

\* What does hold: a contribution whose date the host reads as an Invalid
\* Date is left out, and the others are filtered as usual.
InvalidDateExcluded ==
    pc = "done" =>
        \A i \in 1..Len(contributions) :
            IF ~NewDateParse(contributions[i].date).valid
            THEN ~Included(i)
            ELSE Included(i) <=> AtOrAfter(contributions[i], cutoffDate)

(***************************************************************************)
(* Further properties of GalleryClient (SpecGallery, SpecGalleryFair).     *)
(***************************************************************************)
\* C21: the selected tag is the value of the tag query parameter when the
\* parameter is present, and "All" when it is absent or the query state is
\* not available; it is kept nowhere else and follows the URL at every
\* render: it changes only in a step in which the URL changes.
C21_SelectedTagFromUrl ==
    /\ [](/\ (searchParams.available /\ searchParams.hasTag) => selectedTag = searchParams.tag
          /\ ~(searchParams.available /\ searchParams.hasTag) => selectedTag = "All")
    /\ [][selectedTag' # selectedTag => searchParams' # searchParams]_vars

\* C21's case: the fetch has settled and the URL reads "?tag=", the
\* parameter present with the empty value: the selected tag is that value.
C21_Witness ==
    /\ fetchPc = "done" /\ view = "gallery"
    /\ searchParams = TagParam("")
    /\ selectedTag = ""

\* the query state is not available and the gallery shows every photo
WitnessNullParams ==
    /\ fetchPc = "done" /\ IsCollection /\ Len(photos.items) = 2
    /\ searchParams = NullParams /\ selectedTag = "All"
    /\ Len(filteredPhotos) = 2

(***************************************************************************)
(* Further properties of the date-window filter (SpecDate).                *)
(***************************************************************************)
\* C22: when the caller gives no window size, filterLastNMonths uses a
\* window of 11 months: the cutoff lies 11 months before today's date, and
\* so it is when the calendar calls it as transformData with the
\* contributions only.
C22_DefaultWindowIsEleven ==
    (pc # "idle" /\ ~monthsArg.given) =>
        /\ months = 11
        /\ 12 * cutoffYear + cutoffMonth + 11 = 12 * today.year + today.month
        /\ pc = "done" =>
            /\ cutoffDate = NewDateLocal(today.year, today.month - 11, today.date, clock.tz)
            /\ \A i \in 1..Len(contributions) :
                Included(i) <=> AtOrAfter(contributions[i], cutoffDate)

\* C22's case: called on 2024-06-15 without a window size, the function
\* has cut at 2023-07-15 and returned the later of two contributions.
C22_Witness ==
    /\ pc = "done" /\ ~monthsArg.given
    /\ TodayIs(2024, 5, 15) /\ clock.tz = 0
    /\ cutoffDate = 19553 * 24
    /\ Len(contributions) = 2 /\ Len(result) = 1
    /\ Dated(contributions[1], 2023, 7, 14) /\ Dated(result[1], 2023, 7, 15)

(***************************************************************************)
(* The loading flag and the failed fetch (SpecGallerySettles, SpecGallery) *)
(***************************************************************************)
FetchPending == fetchPc \in {"idle", "fetching", "parsing"}

\* C24: loading is true from mount until the fetch settles; every started
\* fetch ends with loading false, whether the request succeeds, answers with
\* a non-OK status, throws, or its body fails to parse; once false, loading
\* is never true again in that page view.
C24_LoadingUntilSettled ==
    /\ [](FetchPending <=> loading)
    /\ (fetchPc = "fetching") ~> (~loading)
    /\ [][~loading => ~loading']_vars

\* C24's case: the body failed to parse after an OK response, and loading
\* is false.
C24_Witness ==
    /\ fetchPc = "failed" /\ ~loading /\ view = "gallery"
    /\ photos = Array(<<>>)

\* C25: a failed fetch, by a thrown error or a non-OK response, leaves
\* photos at its initial empty list: photos is set only after an OK response
\* whose body parsed, so after a failure the tag list is ["All"] and the
\* filtered list is empty under every selected tag.
C25_FailureLeavesPhotosEmpty ==
    /\ [](fetchPc = "failed" =>
            /\ photos = Array(<<>>)
            /\ renderError = "none"
            /\ allTags = <<Str("All")>>
            /\ filteredPhotos = <<>>)
    /\ [][photos' # photos => (fetchPc = "parsing" /\ fetchPc' = "done")]_vars

\* C25's case: the fetch has failed and the URL selects the empty tag value.
C25_Witness ==
    /\ fetchPc = "failed" /\ searchParams = TagParam("")
    /\ photos = Array(<<>>) /\ filteredPhotos = <<>>
    /\ allTags = <<Str("All")>> /\ view = "gallery"

\* C26: however changes of the selected tag interleave with the completion
\* of the fetch, the photo list rendered is the tag filter of the photos held
\* under the tag selected, and the tag list is the tag universe of the photos
\* held: neither list is stale.
C26_DerivedListsNeverStale ==
    IsCollection =>
        /\ view # "crashed"
        /\ IF selectedTag = "All"
           THEN filteredPhotos = photos.items
           ELSE ExactlyTheTagged(filteredPhotos, photos.items, selectedTag)
        /\ allTags[1] = Str("All")
        /\ {allTags[k] : k \in 2..Len(allTags)} = {Str(t) : t \in TagValues(photos.items)}

\* What does hold: as long as the component is mounted, the lists of the
\* last render are the lists computed from the photos held and the tag
\* selected by the URL.
MountedListsNeverStale ==
    (IsCollection /\ Mounted) =>
        /\ allTags = allTagsOf(photos.items)
        /\ filteredPhotos = filteredPhotosOf(photos.items, selectedTagOf(searchParams))

\* C27: every selectable tag selects something: for a record collection
\* whose records all have a tags list, the filter under any tag of the tag
\* list other than "All" is not empty.
C27_SelectableTagSelects ==
    (IsCollection /\ AllTagged(photos.items)) =>
        /\ \A k \in 2..Len(allTags) :
            allTags[k] # Str("All") =>
                filteredPhotosOf(photos.items, allTags[k].val) # <<>>
        /\ (selectedTag # "All" /\ \E k \in 2..Len(allTags) : allTags[k] = Str(selectedTag)) =>
            (renderError = "none" /\ filteredPhotos # <<>>)

\* C27's case: two tags are offered, the one selected is the second entry of
\* one record's tags list, and the filter shows that record alone.
C27_Witness ==
    /\ fetchPc = "done" /\ IsCollection /\ AllTagged(photos.items)
    /\ Len(photos.items) = 2
    /\ photos.items[1].tags = Array(<<Str("b"), Str("a")>>)
    /\ allTags = <<Str("All"), Str("b"), Str("a")>>
    /\ selectedTag = "a"
    /\ filteredPhotos = <<photos.items[1]>>

(***************************************************************************)
(* The window of the date filter and its result (SpecDate).                *)
(***************************************************************************)
RECURSIVE IsSubsequence(_, _)
\* a is b with some elements left out
IsSubsequence(a, b) ==
    IF a = <<>> THEN TRUE
    ELSE IF b = <<>> THEN FALSE
    ELSE IF Head(a) = Head(b) THEN IsSubsequence(Tail(a), Tail(b))
    ELSE IsSubsequence(a, Tail(b))

\* C28: the window is monotone in its size: with now and the collection
\* fixed, a window no smaller has a cutoff no later, also where the day of
\* the month rolls over into the next month, and returns every record the
\* smaller window returns; and the cutoff is never later than now.
C28_WindowMonotone ==
    pc = "done" =>
        /\ cutoffDate <= NowTime(clock)
        /\ \A m2 \in months..(MaxMonths + 1) :
            /\ cutoffDateOf(clock, m2) <= cutoffDate
            /\ IsSubsequence(result, filterLastNMonthsOf(contributions, clock, m2))
        /\ \A m1 \in 0..months :
            /\ cutoffDate <= cutoffDateOf(clock, m1)
            /\ IsSubsequence(filterLastNMonthsOf(contributions, clock, m1), result)

\* C28's case: on January 31st a window of 2 months cuts at November 31st,
\* that is December 1st; the cutoff lies between those of 3 and of 1 month,
\* and the result between theirs.
C28_Witness ==
    /\ pc = "done" /\ TodayIs(2024, 0, 31) /\ months = 2 /\ clock.tz = 0
    /\ cutoffDate = MakeDay(2023, 11, 1) * 24
    /\ cutoffDateOf(clock, 3) < cutoffDate /\ cutoffDate < cutoffDateOf(clock, 1)
    /\ Len(contributions) = 2 /\ Len(result) = 1
    /\ Len(filterLastNMonthsOf(contributions, clock, 14)) = 2

\* C29: filterLastNMonths returns an order-preserving subsequence of the
\* contributions: every returned record is a record of the input with its
\* date and count as they were, in the order of the input, none of them
\* twice; and the input itself is not modified during the call.
C29_ResultIsSubsequence ==
    /\ [](pc = "done" =>
            /\ IsSubsequence(result, contributions)
            /\ \A k \in 1..Len(result) : \E i \in 1..Len(contributions) :
                /\ result[k].date = contributions[i].date
                /\ result[k].count = contributions[i].count
            /\ NoDuplicates(result))
    /\ [][(pc # "idle" /\ pc' # "idle") => contributions' = contributions]_vars

\* C29's case: both contributions of the input are within the window and
\* are returned in the order of the input.
C29_Witness ==
    /\ pc = "done" /\ Len(contributions) = 2
    /\ Dated(contributions[1], 2023, 7, 16) /\ Dated(contributions[2], 2024, 6, 15)
    /\ result = contributions

(***************************************************************************)
(* The loading view (SpecGallery).                                         *)
(***************************************************************************)
\* C30: in every state in which loading is true only the loading placeholder
\* is rendered, neither the tag list nor the photo grid; the gallery is shown
\* only once the fetch has settled, so no partly fetched or filtered list is
\* displayed before.
C30_LoadingShowsPlaceholderOnly ==
    /\ loading => view = "loading"
    /\ view = "gallery" => (~loading /\ fetchPc \in {"done", "failed"})
    /\ view = "loading" => photos = Array(<<>>)

\* C30's case: the response is being parsed, the URL selects a tag, and the
\* placeholder is what the component shows.
C30_Witness ==
    /\ fetchPc = "parsing" /\ loading
    /\ searchParams = TagParam("a")
    /\ view = "loading"

(***************************************************************************)
(* Several callers at once (SpecConcurrent).                               *)
(***************************************************************************)
\* what the invocation of caller c gives when it runs alone on the shared
\* input: the tag list with the filter result or the TypeError, or the days
\* within the window
AloneTags(c) == allTagsOf(sharedPhotos.items)
AloneThrows(c) == callers[c].tag # "All" /\ \E j \in 1..Len(sharedPhotos.items) : Tagless(sharedPhotos.items[j])
AlonePhotos(c) == filteredPhotosOf(sharedPhotos.items, callers[c].tag)
AloneDays(c) == filterLastNMonthsOf(sharedDays, clock, callers[c].months)

\* C23: the tag filter, the tag list derivation and the date filter may be
\* invoked repeatedly and by several callers at once on the same input:
\* however the invocations interleave, each returns what it returns alone,
\* and the shared input is never modified.
C23_SafeUnderInterleaving ==
    /\ [](\A c \in Callers :
            callers[c].pc = "done" =>
                /\ callers[c].op = "dates" => callers[c].out = AloneDays(c)
                /\ callers[c].op = "tags" =>
                    /\ callers[c].allTags = AloneTags(c)
                    /\ (callers[c].error = "includes") <=> AloneThrows(c)
                    /\ callers[c].error = "none" => callers[c].out = AlonePhotos(c))
    /\ [][sharedPhotos' = sharedPhotos /\ sharedDays' = sharedDays]_vars

\* C23's case: one call has returned a day of the shared array while the
\* other, with a wider window, is still in its loop, and the array is whole.
C23_Witness ==
    /\ callers["first"].op = "dates" /\ callers["first"].pc = "done"
    /\ callers["second"].op = "dates" /\ callers["second"].pc = "loop"
    /\ callers["second"].months > callers["first"].months
    /\ callers["second"].cutoffMonth < 0
    /\ Len(sharedDays) = 2 /\ Len(callers["first"].out) = 1

\* two renders under different tags have both finished on the shared collection
WitnessTwoRenders ==
    /\ callers["first"].op = "tags" /\ callers["first"].pc = "done" /\ callers["first"].tag = "a"
    /\ callers["second"].op = "tags" /\ callers["second"].pc = "done" /\ callers["second"].tag = "All"
    /\ Len(callers["first"].out) = 1 /\ Len(callers["second"].out) = 3

====
